---- MODULE Spec2Model ----
(***************************************************************************)
(* Gossip routing core of nostr-sdk: the gossip graph                      *)
(* (crates/nostr-sdk/src/gossip/graph.rs) as a state machine.              *)
(*                                                                         *)
(*   Spec         ingestion (GossipGraph::update) driven by a sequential   *)
(*                caller.                                                  *)
(*   SpecClock    ingestion, repeated ingestion of the same batch, and the *)
(*                wall clock.                                              *)
(*   SpecFilters  ingestion of routing lists followed by                   *)
(*                GossipGraph::break_down_filters.                         *)
(*   SpecConc     update / update_last_check / break_down_filters as tasks *)
(*                that take the tokio RwLock and work in steps.            *)
(*   SpecCap      ingestion of relay lists longer than MAX_RELAYS_LIST.    *)
(*   SpecStale    update, update_last_check and check_outdated while the   *)
(*                clock passes the staleness intervals.                    *)
(*   SpecScenario the two-key scenario of tests::test_break_down_filters.  *)
(*   SpecQueries  the public relay queries (get_*_relays).                 *)
(*   SpecSkip     ingestion of older events and of the first event of a    *)
(*                kind, with update_last_check and the clock.              *)
(*   SpecCancel   one task for each kind of operation, each of which the   *)
(*                caller may drop while it waits for the lock.             *)
(*   SpecFacets   break_down_filters on filters with a search string.      *)
(*   SpecReads    every read operation between writes while the clock      *)
(*                passes the staleness intervals.                          *)
(*                                                                         *)
(* and the builders of RelayOptions and SyncOptions                        *)
(* (crates/nostr-relay-pool/src/relay/options.rs) under SpecOptions and    *)
(* SpecSync.                                                               *)
(***************************************************************************)
EXTENDS Integers, Sequences, FiniteSets, TLC

VARIABLES
    public_keys,  \* GossipGraph.public_keys: PublicKey -> RelayLists (a partial map)
    now,          \* the host clock read by Timestamp::now()
    call,         \* the call the sequential caller made last, with its result
    lock,         \* the RwLock around public_keys: its writer and its readers
    task,         \* per concurrent task: the operation in progress and its locals
    committed,    \* the write operations that have released the lock, in that order
    checked,      \* per key: when the sequential caller's update_last_check last named it
    opts,         \* a RelayOptions value under construction by a chain of builder calls
    sync          \* a SyncOptions value under construction by a chain of builder calls

vars == <<public_keys, now, call, lock, task, committed, checked, opts, sync>>

conc_vars == <<lock, task, committed>>

----------------------------------------------------------------------------
(* Bounds and universes *)

\* created_at of the events offered to update ranges over 0..MaxCreatedAt
MaxCreatedAt == 1

\* the clock starts at Now0 ...
Now0 == 1

\* ... and is followed for MaxTicks seconds
MaxTicks == 1

\* longest batch of events handed to one update call
MaxBatch == 2

\* largest batch of filters handed to one break_down_filters call
MaxFilters == 1

Keys == {"A", "B"}

Relays == {"r1", "r2"}

\* Option<T>: None is the empty sequence, Some(x) the one-element sequence
None == <<>>

Some(x) == <<x>>

\* Option<RelayMetadata>
MetaOpts == {None, Some("Read"), Some("Write")}

\* the sequences over S of length at most n
SeqsUpTo(S, n) == UNION {[1..i -> S] : i \in 0..n}

----------------------------------------------------------------------------
(* Records of the graph *)

\* use super::constant::MAX_RELAYS_LIST (the constant's file is not part of
\* the sources at hand; the design gives it as a tunable cap, "e.g. 5-10", and
\* tests::test_break_down_filters needs the fourth relay of a list stored)
MAX_RELAYS_LIST == 5

\* a HashMap with no entry
EmptyMap == [r \in {} |-> None]

\* #[derive(Default)] RelayLists: both lists empty, every timestamp at the epoch
DefaultRelayLists ==
    [nip17 |-> [collection |-> {}, event_created_at |-> 0, last_update |-> 0],
     nip65 |-> [collection |-> EmptyMap, event_created_at |-> 0, last_update |-> 0],
     last_check |-> 0]

\* variant of Take: the whole sequence
TakeAll(s, n) == s

\* iterator.take(n)
Take(s, n) == SubSeq(s, 1, IF Len(s) < n THEN Len(s) ELSE n)

\* collect() of (url, metadata) pairs into a HashMap: a later pair replaces an
\* earlier one with the same url
RECURSIVE CollectMap(_)
CollectMap(s) ==
    IF s = <<>> THEN EmptyMap
    ELSE LET init == CollectMap(SubSeq(s, 1, Len(s) - 1))
             e    == s[Len(s)]
         IN  [u \in DOMAIN init \cup {e.url} |->
                 IF u = e.url THEN e.meta ELSE init[u]]

\* collect() of urls into a HashSet
CollectSet(s) == {s[i].url : i \in 1..Len(s)}

\* the RelayList<HashMap<..>> built from a RelayList event at time t
Nip65List(event, t) ==
    [collection       |-> CollectMap(Take(event.tags, MAX_RELAYS_LIST)),
     event_created_at |-> event.created_at,
     last_update      |-> t]

\* the RelayList<HashSet<..>> built from an InboxRelays event at time t
Nip17List(event, t) ==
    [collection       |-> CollectSet(Take(event.tags, MAX_RELAYS_LIST)),
     event_created_at |-> event.created_at,
     last_update      |-> t]

\* mutants of IsNewer
IsNewerStrict(created_at, stored) == created_at > stored

IsNewerAlways(created_at, stored) == TRUE

\* "Update only if new metadata has more recent timestamp"
IsNewer(created_at, stored) == created_at >= stored

\* variant of Insert: no entry is made
InsertNothing(map, k, v) == map

\* HashMap::entry(k).or_insert_with: the map with a new entry
Insert(map, k, v) == [x \in DOMAIN map \cup {k} |-> IF x = k THEN v ELSE map[x]]

\* variant of UpdateOne: the record of the key is made anew from the event
UpdateOneAnew(pk, event, t) ==
    IF event.kind = "RelayList" THEN
        [x \in DOMAIN pk \cup {event.pubkey} |->
            IF x = event.pubkey
            THEN [DefaultRelayLists EXCEPT !.nip65 = Nip65List(event, t)]
            ELSE pk[x]]
    ELSE IF event.kind = "InboxRelays" THEN
        [x \in DOMAIN pk \cup {event.pubkey} |->
            IF x = event.pubkey
            THEN [DefaultRelayLists EXCEPT !.nip17 = Nip17List(event, t)]
            ELSE pk[x]]
    ELSE pk

\* one iteration of the loop of update: the graph after `event`, read at time t
UpdateOne(pk, event, t) ==
    IF event.kind = "RelayList" THEN
        IF event.pubkey \in DOMAIN pk THEN
            IF IsNewer(event.created_at, pk[event.pubkey].nip65.event_created_at)
            THEN [pk EXCEPT ![event.pubkey].nip65 = Nip65List(event, t)]
            ELSE pk
        ELSE Insert(pk, event.pubkey,
                    [DefaultRelayLists EXCEPT !.nip65 = Nip65List(event, t)])
    ELSE IF event.kind = "InboxRelays" THEN
        IF event.pubkey \in DOMAIN pk THEN
            IF IsNewer(event.created_at, pk[event.pubkey].nip17.event_created_at)
            THEN [pk EXCEPT ![event.pubkey].nip17 = Nip17List(event, t)]
            ELSE pk
        ELSE Insert(pk, event.pubkey,
                    [DefaultRelayLists EXCEPT !.nip17 = Nip17List(event, t)])
    ELSE pk

\* the loop of update over the whole batch, in iteration order
RECURSIVE UpdateBatch(_, _, _)
UpdateBatch(pk, events, t) ==
    IF events = <<>> THEN pk
    ELSE UpdateBatch(UpdateOne(pk, Head(events), t), Tail(events), t)

----------------------------------------------------------------------------
(* RelayOptions (crates/nostr-relay-pool/src/relay/options.rs) *)

\* use super::constants::{DEFAULT_RETRY_INTERVAL, MIN_RETRY_INTERVAL}: the
\* constants' file is not part of the sources at hand; the design gives 10 s
\* and 5 s.  A Duration is a number of milliseconds here.
DEFAULT_RETRY_INTERVAL == 10000

MIN_RETRY_INTERVAL == 5000

\* Duration::from_secs
FromSecs(secs) == secs * 1000

\* impl Default for RelayOptions: the fields the builders below write
RelayOptionsDefault ==
    [reconnect             |-> TRUE,
     retry_interval        |-> DEFAULT_RETRY_INTERVAL,
     adjust_retry_interval |-> TRUE,
     max_avg_latency       |-> None]

\* RelayOptions::reconnect
reconnect(self, on) == [self EXCEPT !.reconnect = on]

\* variants of AtLeastMin
AtLeastMinNever(interval) == FALSE

AtLeastMinAlways(interval) == TRUE

\* interval >= MIN_RETRY_INTERVAL
AtLeastMin(interval) == interval >= MIN_RETRY_INTERVAL

\* RelayOptions::retry_interval
retry_interval(self, interval) ==
    IF AtLeastMin(interval) THEN [self EXCEPT !.retry_interval = interval] ELSE self

\* RelayOptions::retry_sec
retry_sec(self, secs) == retry_interval(self, FromSecs(secs))

\* RelayOptions::adjust_retry_interval
adjust_retry_interval(self, on) == [self EXCEPT !.adjust_retry_interval = on]

\* RelayOptions::max_avg_latency
max_avg_latency(self, max) == [self EXCEPT !.max_avg_latency = max]

\* impl Default for SyncOptions; SyncDirection::default() is Down.  The
\* progress sender is Some(channel) once given.
SyncOptionsDefault ==
    [initial_timeout |-> FromSecs(10),
     direction       |-> "Down",
     dry_run         |-> FALSE,
     progress        |-> None]

SyncDirections == {"Up", "Down", "Both"}

\* SyncOptions::initial_timeout
initial_timeout(self, timeout) == [self EXCEPT !.initial_timeout = timeout]

\* SyncOptions::direction
direction(self, dir) == [self EXCEPT !.direction = dir]

\* variant of dry_run: the flag is flipped
dry_run_toggle(self) == [self EXCEPT !.dry_run = ~@]

\* SyncOptions::dry_run
dry_run(self) == [self EXCEPT !.dry_run = TRUE]

\* SyncOptions::progress
progress(self, sender) == [self EXCEPT !.progress = Some(sender)]

\* variant of do_up: the dry run is not looked at
do_up_always(self) == self.direction \in {"Up", "Both"}

\* SyncOptions::do_up
do_up(self) == ~self.dry_run /\ self.direction \in {"Up", "Both"}

\* SyncOptions::do_down
do_down(self) == ~self.dry_run /\ self.direction \in {"Down", "Both"}

----------------------------------------------------------------------------
(* The sequential caller *)

\* `runs` counts how often the caller has handed in `events`
Idle ==
    [op |-> "idle", runs |-> 0, events |-> <<>>, keys |-> {}, filters |-> {},
     arg |-> <<>>, out |-> <<>>]

Event(k, kind, c, tags) == [pubkey |-> k, kind |-> kind, created_at |-> c, tags |-> tags]

Tag(u, m) == [url |-> u, meta |-> m]

\* events offered to update under Spec: relay lists of key A at every
\* created_at with two different contents, its direct-inbox list at every
\* created_at, a relay list of key B and an event of another kind
IngestEvents ==
    {Event("A", "RelayList", c, tags) :
        c \in 0..MaxCreatedAt,
        tags \in {<<Tag("r1", None)>>, <<Tag("r2", Some("Write"))>>}}
    \cup {Event("A", "InboxRelays", c, <<Tag("r1", None)>>) : c \in 0..MaxCreatedAt}
    \cup {Event("B", "RelayList", 1, <<Tag("r1", Some("Read"))>>),
          Event("A", "TextNote", 1, <<>>)}

IngestBatches == SeqsUpTo(IngestEvents, MaxBatch)

\* graph.update(events).await by the idle caller
Update(batches) ==
    \E events \in batches :
        /\ call.op = "idle"
        /\ public_keys' = UpdateBatch(public_keys, events, now)
        /\ call' = [Idle EXCEPT !.op = "update", !.events = events, !.runs = 1]
        /\ UNCHANGED <<now, conc_vars, checked, opts, sync>>

\* graph.update(events).await once more, with the batch just ingested
UpdateAgain ==
    /\ call.op = "update"
    /\ call.runs = 1
    /\ public_keys' = UpdateBatch(public_keys, call.events, now)
    /\ call' = [call EXCEPT !.runs = 2]
    /\ UNCHANGED <<now, conc_vars, checked, opts, sync>>

\* the caller drops the result of its last call
Return ==
    /\ call.op # "idle"
    /\ call' = Idle
    /\ UNCHANGED <<public_keys, now, conc_vars, checked, opts, sync>>

\* a second passes on the host clock
Tick ==
    /\ now < Now0 + MaxTicks
    /\ now' = now + 1
    /\ UNCHANGED <<public_keys, call, conc_vars, checked, opts, sync>>

Init ==
    /\ public_keys = EmptyMap
    /\ now = Now0
    /\ call = Idle
    /\ lock = [writer |-> None, readers |-> {}]
    /\ task = EmptyMap
    /\ committed = <<>>
    /\ checked = EmptyMap
    /\ opts = RelayOptionsDefault
    /\ sync = SyncOptionsDefault

Next ==
    \/ Update(IngestBatches)
    \/ Return

Spec == Init /\ [][Next]_vars

\* events offered to update under SpecClock: lists of key A
ClockEvents ==
    {Event("A", "RelayList", c, tags) :
        c \in 0..MaxCreatedAt,
        tags \in {<<Tag("r1", None)>>, <<Tag("r2", Some("Write"))>>}}
    \cup {Event("A", "InboxRelays", 1, <<Tag("r1", None)>>)}

ClockBatches == SeqsUpTo(ClockEvents, MaxBatch)

NextClock ==
    \/ Update(ClockBatches)
    \/ UpdateAgain
    \/ Return
    \/ Tick

SpecClock == Init /\ [][NextClock]_vars

----------------------------------------------------------------------------
(* Read queries over one read guard `txn` *)

\* PublicKey::to_string: the lowercase hex encoding of a key
HexOf(k) == IF k = "A" THEN "aa" ELSE "bb"

\* PublicKey::from_hex(..).ok(): hex digits of either case name a key,
\* anything else is dropped
FromHex(s) ==
    IF s \in {"aa", "AA"} THEN Some("A")
    ELSE IF s \in {"bb", "BB"} THEN Some("B")
    ELSE None

\* get_nip17_relays
get_nip17_relays(txn, keys) ==
    UNION {txn[k].nip17.collection : k \in keys \cap DOMAIN txn}

\* mutant of KeepsEntry: with no metadata asked for, Read entries are left out
KeepsEntryWrite(m, metadata) ==
    IF m # None THEN (IF metadata # None THEN m = metadata ELSE m = Some("Write"))
    ELSE TRUE

\* variant of KeepsEntry: an entry without annotation is left out
KeepsEntryAnnotatedOnly(m, metadata) == m # None /\ m = metadata

\* the `insert` test of get_nip65_relays: an annotated entry is kept when no
\* metadata is asked for or when it carries the metadata asked for
KeepsEntry(m, metadata) ==
    IF m # None THEN (IF metadata # None THEN m = metadata ELSE TRUE) ELSE TRUE

\* get_nip65_relays
get_nip65_relays(txn, keys, metadata) ==
    UNION {{u \in DOMAIN txn[k].nip65.collection :
               KeepsEntry(txn[k].nip65.collection[u], metadata)} :
           k \in keys \cap DOMAIN txn}

\* map_nip17_relays
map_nip17_relays(txn, keys) ==
    [u \in get_nip17_relays(txn, keys) |->
        {k \in keys \cap DOMAIN txn : u \in txn[k].nip17.collection}]

\* mutant of MapsEntry: only an entry annotated with the metadata counts
MapsEntryAnnotatedOnly(m, metadata) == m = Some(metadata)

\* mutant of MapsEntry: the annotation is not looked at
MapsEntryAny(m, metadata) == TRUE

\* the `insert` test of map_nip65_relays
MapsEntry(m, metadata) == IF m # None THEN m = Some(metadata) ELSE TRUE

\* map_nip65_relays
map_nip65_relays(txn, keys, metadata) ==
    LET has(k, u) == /\ u \in DOMAIN txn[k].nip65.collection
                     /\ MapsEntry(txn[k].nip65.collection[u], metadata)
        listed == UNION {DOMAIN txn[k].nip65.collection : k \in keys \cap DOMAIN txn}
        urls == {u \in listed : \E k \in keys \cap DOMAIN txn : has(k, u)}
    IN  [u \in urls |-> {k \in keys \cap DOMAIN txn : has(k, u)}]

map_nip65_outbox_relays(txn, keys) == map_nip65_relays(txn, keys, "Write")

map_nip65_inbox_relays(txn, keys) == map_nip65_relays(txn, keys, "Read")

get_nip65_outbox_relays(txn, keys) == get_nip65_relays(txn, keys, Some("Write"))

get_nip65_inbox_relays(txn, keys) == get_nip65_relays(txn, keys, Some("Read"))

get_nip17_inbox_relays(txn, keys) == get_nip17_relays(txn, keys)

----------------------------------------------------------------------------
(* break_down_filters *)

\* a Filter: authors, the `p` entry of generic_tags, and search standing for
\* the facets the graph never reads
Filter(a, p, s) == [authors |-> a, p |-> p, search |-> s]

\* HashMap::extend: an entry of `more` replaces the entry of `map` with its key
Extend(map, more) ==
    [u \in DOMAIN map \cup DOMAIN more |-> IF u \in DOMAIN more THEN more[u] ELSE map[u]]

\* variant of InsertAt: the entries are made, the filters are not inserted
InsertAtDefault(map, per) ==
    [u \in DOMAIN map \cup DOMAIN per |-> IF u \in DOMAIN map THEN map[u] ELSE {}]

\* map.entry(relay).and_modify(insert).or_default().insert, for every relay
\* of `per`, which gives the filter to insert at each relay
InsertAt(map, per) ==
    [u \in DOMAIN map \cup DOMAIN per |->
        (IF u \in DOMAIN map THEN map[u] ELSE {})
        \cup (IF u \in DOMAIN per THEN {per[u]} ELSE {})]

\* the p_tag of a filter: the keys its `p` strings parse to, None without a `p` entry
PTag(filter) ==
    IF filter.p = None THEN None
    ELSE Some({FromHex(s)[1] : s \in {x \in filter.p[1] : FromHex(x) # None}})

\* the accumulators of break_down_filters before the loop
NoFilters == [map |-> EmptyMap, orphans |-> {}, others |-> {}, urls |-> {}]

\* mutant of Orphan: the filter is not kept
OrphanDropped(acc, filter) == acc

\* orphans.insert(filter.clone())
Orphan(acc, filter) == [acc EXCEPT !.orphans = @ \cup {filter}]

\* variant of WithAuthors: a filter made anew around the authors
WithAuthorsAnew(filter, pk_set) == [authors |-> Some(pk_set), p |-> None, search |-> None]

\* filter.clone() with authors = Some(pk_set)
WithAuthors(filter, pk_set) == [filter EXCEPT !.authors = Some(pk_set)]

\* variant of WithPTag: a filter made anew around the `p` entry
WithPTagAnew(filter, pk_set) ==
    [authors |-> None, p |-> Some({HexOf(k) : k \in pk_set}), search |-> None]

\* filter.clone() with the `p` entry of generic_tags replaced by the keys in hex
WithPTag(filter, pk_set) == [filter EXCEPT !.p = Some({HexOf(k) : k \in pk_set})]

\* the body of the loop of break_down_filters for one filter
BreakDownOne(acc, txn, filter) ==
    LET p_tag == PTag(filter)
    IN  IF filter.authors # None /\ p_tag = None THEN
            LET authors == filter.authors[1]
                outbox  == Extend(map_nip65_outbox_relays(txn, authors),
                                  map_nip17_relays(txn, authors))
            IN  IF DOMAIN outbox = {} THEN Orphan(acc, filter)
                ELSE [acc EXCEPT
                        !.urls = @ \cup DOMAIN outbox,
                        !.map = InsertAt(@, [u \in DOMAIN outbox |->
                                    WithAuthors(filter, outbox[u])])]
        ELSE IF filter.authors = None /\ p_tag # None THEN
            LET p_public_keys == p_tag[1]
                inbox == Extend(map_nip65_inbox_relays(txn, p_public_keys),
                                map_nip17_relays(txn, p_public_keys))
            IN  IF DOMAIN inbox = {} THEN Orphan(acc, filter)
                ELSE [acc EXCEPT
                        !.urls = @ \cup DOMAIN inbox,
                        !.map = InsertAt(@, [u \in DOMAIN inbox |->
                                    WithPTag(filter, inbox[u])])]
        ELSE IF filter.authors # None /\ p_tag # None THEN
            LET both   == filter.authors[1] \cup p_tag[1]
                relays == get_nip65_relays(txn, both, None)
                              \cup get_nip17_relays(txn, both)
            IN  IF relays = {} THEN Orphan(acc, filter)
                ELSE [acc EXCEPT
                        !.urls = @ \cup relays,
                        !.map = InsertAt(@, [u \in relays |-> filter])]
        ELSE [acc EXCEPT !.others = @ \cup {filter}]

\* the loop of break_down_filters
RECURSIVE BreakDownLoop(_, _, _)
BreakDownLoop(acc, txn, filters) ==
    IF filters = {} THEN acc
    ELSE LET filter == CHOOSE f \in filters : TRUE
         IN  BreakDownLoop(BreakDownOne(acc, txn, filter), txn, filters \ {filter})

\* break_down_filters under one read guard: the BrokenDownFilters returned
break_down_filters(txn, filters) ==
    LET acc == BreakDownLoop(NoFilters, txn, filters)
    IN  [filters |-> acc.map,
         orphans |-> IF acc.orphans = {} THEN None ELSE Some(acc.orphans),
         others  |-> IF acc.others = {} THEN None ELSE Some(acc.others),
         urls    |-> acc.urls]

\* the sets of at most n elements of S
RECURSIVE SubsetsUpTo(_, _)
SubsetsUpTo(S, n) ==
    IF n = 0 THEN {{}}
    ELSE LET smaller == SubsetsUpTo(S, n - 1)
         IN  smaller \cup {x \cup {e} : x \in smaller, e \in S}

\* authors of the filters offered: none, no key, one key, both keys
AuthorOpts == {None, Some({}), Some({"A"}), Some(Keys)}

\* `p` entries of the filters offered: none, keys in hex, and a string that is
\* no hex
PTagOpts ==
    {None, Some({"aa"}), Some({"aa", "bb"}), Some({"zz"}), Some({"BB", "zz"})}

FilterUniverse == {Filter(a, p, None) : a \in AuthorOpts, p \in PTagOpts}

FilterBatches == SubsetsUpTo(FilterUniverse, MaxFilters)

\* graph.break_down_filters(filters).await by the idle caller
BreakDown(batches) ==
    \E filters \in batches :
        /\ call.op = "idle"
        /\ call' = [Idle EXCEPT !.op = "break_down_filters", !.runs = 1,
                                !.filters = filters,
                                !.out = break_down_filters(public_keys, filters)]
        /\ UNCHANGED <<public_keys, now, conc_vars, checked, opts, sync>>

\* relay lists offered under SpecFilters: every list that names each relay at
\* most once, with every annotation
RelayListTags ==
    {s \in SeqsUpTo({Tag(u, m) : u \in Relays, m \in MetaOpts}, Cardinality(Relays)) :
        \A i, j \in 1..Len(s) : i # j => s[i].url # s[j].url}

\* direct-inbox lists offered under SpecFilters: relay r1
InboxTags == {<<Tag("r1", None)>>}

RoutingEvents ==
    {Event(k, "RelayList", 1, tags) : k \in Keys, tags \in RelayListTags}
    \cup {Event(k, "InboxRelays", 1, tags) : k \in Keys, tags \in InboxTags}

RoutingBatches == {<<e>> : e \in RoutingEvents}

NextFilters ==
    \/ Update(RoutingBatches)
    \/ BreakDown(FilterBatches)
    \/ Return

SpecFilters == Init /\ [][NextFilters]_vars

----------------------------------------------------------------------------
(* Decomposition: properties checked under SpecFilters *)

\* the NIP-65 entries of key k, none when the graph has no record of k
Nip65Of(pk, k) == IF k \in DOMAIN pk THEN pk[k].nip65.collection ELSE EmptyMap

\* outbox relays of k: entries annotated Write or not annotated
OutboxOf(pk, k) ==
    {u \in DOMAIN Nip65Of(pk, k) : Nip65Of(pk, k)[u] \in {None, Some("Write")}}

\* inbox relays of k: entries annotated Read or not annotated
InboxOf(pk, k) ==
    {u \in DOMAIN Nip65Of(pk, k) : Nip65Of(pk, k)[u] \in {None, Some("Read")}}

\* direct-inbox (NIP-17) relays of k
DirectOf(pk, k) == IF k \in DOMAIN pk THEN pk[k].nip17.collection ELSE {}

\* the caller holds the result of break_down_filters on the current graph
BrokenDown == call.op = "break_down_filters"

IsCase1(f) == f.authors # None /\ f.p = None

IsCase2(f) == f.authors = None /\ f.p # None

IsCase3(f) == f.authors # None /\ f.p # None

IsCase4(f) == f.authors = None /\ f.p = None

\* the filters the result holds at relay u
FiltersAt(out, u) == IF u \in DOMAIN out.filters THEN out.filters[u] ELSE {}

\* the authors of the case-1 filter f that list relay u as outbox or direct inbox
AuthorsFor(pk, f, u) ==
    {k \in f.authors[1] : u \in OutboxOf(pk, k) \cup DirectOf(pk, k)}

\* C2 (soundness, authors only): the filters with authors and no p-tag that
\* the result holds at a relay are exactly the input filters of that shape,
\* each with its authors replaced by those of its authors whose outbox
\* entries (Write or unannotated) or direct-inbox list contain the relay, the
\* key sets of the two maps merged by union; none is held for an empty set.
C2_AuthorsExact ==
    BrokenDown =>
        \A u \in Relays :
            {g \in FiltersAt(call.out, u) : IsCase1(g)}
              = {[f EXCEPT !.authors = Some(AuthorsFor(public_keys, f, u))] :
                    f \in {x \in call.filters :
                              IsCase1(x) /\ AuthorsFor(public_keys, x, u) # {}}}

\* the keys of the p-tag of the case-2 filter f that list relay u as inbox or
\* direct inbox
TaggedFor(pk, f, u) ==
    {k \in PTag(f)[1] : u \in InboxOf(pk, k) \cup DirectOf(pk, k)}

\* C3 (p-tag only): the filters with a p-tag and no authors that the result
\* holds at a relay are exactly the input filters of that shape, each with its
\* p-tag list replaced by the hex encodings of those of its keys whose inbox
\* entries (Read or unannotated) or direct-inbox list contain the relay, the
\* key sets of the two maps merged by union; none is held for an empty set.
C3_PTagsExact ==
    BrokenDown =>
        \A u \in Relays :
            {g \in FiltersAt(call.out, u) : IsCase2(g)}
              = {[f EXCEPT !.p = Some({HexOf(k) : k \in TaggedFor(public_keys, f, u)})] :
                    f \in {x \in call.filters :
                              IsCase2(x) /\ TaggedFor(public_keys, x, u) # {}}}

\* the optional set as a set
Opt(o) == IF o = None THEN {} ELSE o[1]

\* the relays of any NIP-65 entry or direct-inbox list of the authors and
\* p-tag keys of the case-3 filter f
AnyRelayFor(pk, f) ==
    UNION {DOMAIN Nip65Of(pk, k) \cup DirectOf(pk, k) : k \in f.authors[1] \cup PTag(f)[1]}

\* C4 (authors and p-tag): a filter with both is held, unmodified, at exactly
\* the relays that occur in a NIP-65 entry (whatever its annotation) or in
\* the direct-inbox list of one of its authors or p-tag keys; when there is
\* no such relay it is an orphan.
C4_BothExact ==
    BrokenDown =>
        \A f \in {x \in call.filters : IsCase3(x)} :
            /\ \A u \in Relays :
                  f \in FiltersAt(call.out, u) <=> u \in AnyRelayFor(public_keys, f)
            /\ f \in Opt(call.out.orphans) <=> AnyRelayFor(public_keys, f) = {}

\* a filter with both facets is held at a relay that only a Read entry names
C4_AtReadRelay ==
    /\ BrokenDown
    /\ \E f \in call.filters, u \in Relays :
          /\ IsCase3(f) /\ f \in FiltersAt(call.out, u)
          /\ PTag(f)[1] # {} /\ f.authors[1] # {}
          /\ \A k \in Keys : u \notin OutboxOf(public_keys, k) \cup DirectOf(public_keys, k)

\* the relay set break_down_filters derives for a filter with authors or a p-tag
DerivedFor(pk, f) ==
    IF IsCase1(f) THEN {u \in Relays : AuthorsFor(pk, f, u) # {}}
    ELSE IF IsCase2(f) THEN {u \in Relays : TaggedFor(pk, f, u) # {}}
    ELSE AnyRelayFor(pk, f)

\* C5 (orphans and others): an input filter is among the orphans iff it has
\* authors or a p-tag and the relay set derived for it is empty, and then a
\* call with that filter alone returns no per-relay entry; it is among the
\* others iff it has neither; no filter is in both; orphans and others are
\* None exactly when they would be empty.
C5_OrphansOthers ==
    BrokenDown =>
        /\ \A f \in call.filters :
              /\ f \in Opt(call.out.orphans)
                    <=> (~IsCase4(f) /\ DerivedFor(public_keys, f) = {})
              /\ f \in Opt(call.out.others) <=> IsCase4(f)
        /\ Opt(call.out.orphans) \cup Opt(call.out.others) \subseteq call.filters
        /\ Opt(call.out.orphans) \cap Opt(call.out.others) = {}
        /\ call.out.orphans # Some({}) /\ call.out.others # Some({})
        /\ (Cardinality(call.filters) = 1 /\ call.out.orphans # None)
              => (DOMAIN call.out.filters = {} /\ call.out.urls = {})

\* a filter whose only author is unknown to a graph that knows another key
\* has become the only orphan, and nothing is routed
C5_UnknownKeyOrphan ==
    /\ BrokenDown
    /\ \E f \in call.filters :
          /\ IsCase1(f) /\ f.authors[1] # {}
          /\ f.authors[1] \cap DOMAIN public_keys = {}
          /\ call.out.orphans = Some({f})
    /\ DOMAIN public_keys # {}
    /\ DOMAIN call.out.filters = {}
    /\ call.out.others = None

\* C10 (completeness): for an input filter with authors and no p-tag, every
\* author with a non-empty outbox list has at least one relay of that list
\* among the keys of the returned filters.
C10_Complete ==
    BrokenDown =>
        \A f \in {x \in call.filters : IsCase1(x)} :
            \A a \in f.authors[1] :
                OutboxOf(public_keys, a) # {}
                    => OutboxOf(public_keys, a) \cap DOMAIN call.out.filters # {}

\* a single filter naming two authors, each with outbox relays, one of them
\* with unannotated entries only, has been routed
C10_TwoAuthorsRouted ==
    /\ BrokenDown
    /\ \E f \in call.filters :
          /\ call.filters = {f}
          /\ IsCase1(f) /\ f.authors[1] = Keys
          /\ \A a \in Keys : OutboxOf(public_keys, a) # {}
          /\ \E a \in Keys : \A u \in OutboxOf(public_keys, a) :
                Nip65Of(public_keys, a)[u] = None
          /\ \A a \in Keys : OutboxOf(public_keys, a) \subseteq DOMAIN call.out.filters

----------------------------------------------------------------------------
(* Ingestion: properties checked under Spec and SpecClock *)

ListKinds == {"RelayList", "InboxRelays"}

\* the list of `kind` in the record of key k
ListOf(pk, k, kind) == IF kind = "RelayList" THEN pk[k].nip65 ELSE pk[k].nip17

\* event_created_at of that list; the epoch when k has no record
CreatedAtOf(pk, k, kind) ==
    IF k \in DOMAIN pk THEN ListOf(pk, k, kind).event_created_at ELSE 0

\* the collection an event carries, written out for lists no longer than the cap
ContentOf(e) ==
    IF e.kind = "RelayList"
    THEN [u \in {e.tags[i].url : i \in 1..Len(e.tags)} |->
             e.tags[CHOOSE i \in 1..Len(e.tags) :
                       /\ e.tags[i].url = u
                       /\ \A j \in (i + 1)..Len(e.tags) : e.tags[j].url # u].meta]
    ELSE {e.tags[i].url : i \in 1..Len(e.tags)}

\* this step is a call of update (call.runs counts them)
IsUpdateStep == call'.op = "update" /\ call'.runs # call.runs

\* what ingesting the single event e does to the list of its key and kind
IngestedOne(pre, e, post) ==
    LET installed == e.created_at >= CreatedAtOf(pre, e.pubkey, e.kind)
        new       == ListOf(post, e.pubkey, e.kind)
    IN  /\ e.pubkey \in DOMAIN post
        /\ new.event_created_at >= e.created_at
        /\ (new.event_created_at = e.created_at) <=> installed
        /\ installed => new.collection = ContentOf(e)
        /\ ~installed => new = ListOf(pre, e.pubkey, e.kind)

C1_Step ==
    /\ \A k \in DOMAIN public_keys :
          /\ k \in DOMAIN public_keys'
          /\ \A kind \in ListKinds :
                CreatedAtOf(public_keys', k, kind) >= CreatedAtOf(public_keys, k, kind)
    /\ IsUpdateStep =>
          LET b == call'.events
              after(i) == UpdateBatch(public_keys, SubSeq(b, 1, i), now)
          IN  /\ after(Len(b)) = public_keys'
              /\ \A i \in 1..Len(b) :
                    b[i].kind \in ListKinds => IngestedOne(after(i - 1), b[i], after(i))

Stored(pk) ==
    [k \in DOMAIN pk |->
        [nip65 |-> [collection |-> pk[k].nip65.collection,
                    event_created_at |-> pk[k].nip65.event_created_at],
         nip17 |-> [collection |-> pk[k].nip17.collection,
                    event_created_at |-> pk[k].nip17.event_created_at]]]

\* the orders in which the batch b can be iterated
Orders(b) == {[i \in 1..Len(b) |-> b[pi[i]]] : pi \in Permutations(1..Len(b))}

\* no two events of the batch for one key and list kind share their created_at
DistinctCreatedAt(b) ==
    \A i, j \in 1..Len(b) :
        (i < j /\ b[i].kind \in ListKinds /\ b[i].kind = b[j].kind
               /\ b[i].pubkey = b[j].pubkey)
        => b[i].created_at # b[j].created_at

\* among the events of the batch for key k and `kind` with the largest
\* created_at, the one iterated last is stored (when it is not older than the
\* list stored before the call)
LastOfNewestStored(pre, b, post) ==
    \A i \in 1..Len(b) :
        LET e == b[i]
            same(j) == b[j].pubkey = e.pubkey /\ b[j].kind = e.kind
        IN  ( /\ e.kind \in ListKinds
              /\ \A j \in 1..Len(b) : same(j) => b[j].created_at <= e.created_at
              /\ \A j \in (i + 1)..Len(b) : same(j) => b[j].created_at < e.created_at
              /\ e.created_at >= CreatedAtOf(pre, e.pubkey, e.kind) )
            => /\ ListOf(post, e.pubkey, e.kind).collection = ContentOf(e)
               /\ ListOf(post, e.pubkey, e.kind).event_created_at = e.created_at

C6_Step ==
    IsUpdateStep =>
        /\ DistinctCreatedAt(call'.events) =>
              \A p \in Orders(call'.events) :
                  Stored(UpdateBatch(public_keys, p, now)) = Stored(public_keys')
        /\ LastOfNewestStored(public_keys, call'.events, public_keys')

IsSecondRun == call.op = "update" /\ call.runs = 1 /\ call'.op = "update" /\ call'.runs = 2

Reinstalls(b, pk, k, kind) ==
    \E i \in 1..Len(b) :
        /\ b[i].pubkey = k /\ b[i].kind = kind
        /\ b[i].created_at = CreatedAtOf(pk, k, kind)

C7_Step ==
    IsSecondRun =>
        /\ Stored(public_keys') = Stored(public_keys)
        /\ \A k \in DOMAIN public_keys :
              /\ public_keys'[k].last_check = public_keys[k].last_check
              /\ \A kind \in ListKinds :
                    ListOf(public_keys', k, kind).last_update =
                        IF Reinstalls(call.events, public_keys, k, kind)
                        THEN now
                        ELSE ListOf(public_keys, k, kind).last_update

----------------------------------------------------------------------------
(* Concurrent tasks around the RwLock *)

\* variant of UpdateLastCheckOne: a record that exists is left as it is
UpdateLastCheckOneInsertOnly(pk, public_key, t) ==
    IF public_key \in DOMAIN pk THEN pk
    ELSE [x \in DOMAIN pk \cup {public_key} |->
             IF x = public_key THEN [DefaultRelayLists EXCEPT !.last_check = t]
             ELSE pk[x]]

\* variant: the record of the key is made anew, its lists emptied
UpdateLastCheckOneAnew(pk, public_key, t) ==
    [x \in DOMAIN pk \cup {public_key} |->
        IF x = public_key THEN [DefaultRelayLists EXCEPT !.last_check = t]
        ELSE pk[x]]

\* the body of the loop of update_last_check for one key, at time t
UpdateLastCheckOne(pk, public_key, t) ==
    IF public_key \in DOMAIN pk
    THEN [pk EXCEPT ![public_key].last_check = t]
    ELSE Insert(pk, public_key, [DefaultRelayLists EXCEPT !.last_check = t])

\* the loop of update_last_check
RECURSIVE UpdateLastCheckLoop(_, _, _)
UpdateLastCheckLoop(pk, keys, t) ==
    IF keys = <<>> THEN pk
    ELSE UpdateLastCheckLoop(UpdateLastCheckOne(pk, Head(keys), t), Tail(keys), t)

\* tasks that call update, update_last_check and break_down_filters
Updaters == {"u1", "u2"}

Checkers == {"c1"}

Breakers == {"b1", "b2"}

\* the batches the updaters hand in: list events of both kinds and both keys,
\* one of them older than another for the same list
ConcBatches ==
    {<<Event("A", "RelayList", 1, <<Tag("r1", Some("Write"))>>),
       Event("B", "InboxRelays", 1, <<Tag("r1", None)>>)>>,
     <<Event("A", "RelayList", 0, <<Tag("r2", None)>>),
       Event("B", "RelayList", 1, <<Tag("r2", Some("Read"))>>)>>}

\* the keys the checker hands in
ConcKeys == {<<"A", "B">>}

\* the filter batches the readers hand in
ConcFilters ==
    {{Filter(Some({"A"}), None, None), Filter(None, Some({"bb"}), None)},
     {Filter(Some(Keys), None, None), Filter(Some({"A"}), Some({"bb"}), None)}}

\* a task suspended in write().await or read().await; `at` lists the times the
\* task reads from the clock, `seen` counts the write operations that had
\* returned when the task got the lock
Waiting(op, arg, todo) ==
    [op |-> op, pc |-> "waiting", arg |-> arg, todo |-> todo,
     acc |-> NoFilters, at |-> <<>>, seen |-> 0, out |-> None]

\* mutants of CanWrite and CanRead
CanWriteBesideReaders(l) == l.writer = None

CanReadBesideWriter(l) == TRUE

\* RwLock::write is granted when there is neither a writer nor a reader
CanWrite(l) == l.writer = None /\ l.readers = {}

\* RwLock::read is granted when there is no writer (tokio also makes a reader
\* queue behind a waiting writer: a restriction of the grants allowed here)
CanRead(l) == l.writer = None

\* a task calls graph.update(events) and suspends in write().await
CallUpdate(t) ==
    \E events \in ConcBatches :
        /\ t \notin DOMAIN task
        /\ task' = Insert(task, t, Waiting("update", events, events))
        /\ UNCHANGED <<public_keys, now, call, lock, committed, checked, opts, sync>>

\* a task calls graph.update_last_check(keys) and suspends in write().await
CallUpdateLastCheck(t) ==
    \E keys \in ConcKeys :
        /\ t \notin DOMAIN task
        /\ task' = Insert(task, t, Waiting("update_last_check", keys, keys))
        /\ UNCHANGED <<public_keys, now, call, lock, committed, checked, opts, sync>>

\* a task calls graph.break_down_filters(filters) and suspends in read().await
CallBreakDown(t) ==
    \E filters \in ConcFilters :
        /\ t \notin DOMAIN task
        /\ task' = Insert(task, t, Waiting("break_down_filters", filters, filters))
        /\ UNCHANGED <<public_keys, now, call, lock, committed, checked, opts, sync>>

\* self.public_keys.write().await completes; update_last_check then reads
\* the clock, once
AcquireWrite(t) ==
    /\ t \in DOMAIN task
    /\ task[t].pc = "waiting"
    /\ task[t].op \in {"update", "update_last_check"}
    /\ CanWrite(lock)
    /\ lock' = [lock EXCEPT !.writer = Some(t)]
    /\ task' = [task EXCEPT
                  ![t].pc = "held",
                  ![t].seen = Len(committed),
                  ![t].at = IF task[t].op = "update_last_check" THEN <<now>> ELSE <<>>]
    /\ UNCHANGED <<public_keys, now, call, committed, checked, opts, sync>>

\* self.public_keys.read().await completes
AcquireRead(t) ==
    /\ t \in DOMAIN task
    /\ task[t].pc = "waiting"
    /\ task[t].op = "break_down_filters"
    /\ CanRead(lock)
    /\ lock' = [lock EXCEPT !.readers = @ \cup {t}]
    /\ task' = [task EXCEPT ![t].pc = "held", ![t].seen = Len(committed)]
    /\ UNCHANGED <<public_keys, now, call, committed, checked, opts, sync>>

\* one iteration of the loop of update, through the write guard; it reads the
\* clock for the last_update of the list it builds
UpdateStep(t) ==
    /\ t \in DOMAIN task
    /\ task[t].pc = "held"
    /\ task[t].op = "update"
    /\ task[t].todo # <<>>
    /\ public_keys' = UpdateOne(public_keys, Head(task[t].todo), now)
    /\ task' = [task EXCEPT ![t].todo = Tail(@), ![t].at = Append(@, now)]
    /\ UNCHANGED <<now, call, lock, committed, checked, opts, sync>>

\* one iteration of the loop of update_last_check, through the write guard
UpdateLastCheckStep(t) ==
    /\ t \in DOMAIN task
    /\ task[t].pc = "held"
    /\ task[t].op = "update_last_check"
    /\ task[t].todo # <<>>
    /\ public_keys' = UpdateLastCheckOne(public_keys, Head(task[t].todo), task[t].at[1])
    /\ task' = [task EXCEPT ![t].todo = Tail(@)]
    /\ UNCHANGED <<now, call, lock, committed, checked, opts, sync>>

\* one iteration of the loop of break_down_filters, through the read guard:
\* the guard borrows the graph, it holds no copy of it
BreakDownStep(t) ==
    /\ t \in DOMAIN task
    /\ task[t].pc = "held"
    /\ task[t].op = "break_down_filters"
    /\ \E filter \in task[t].todo :
          task' = [task EXCEPT
                      ![t].todo = @ \ {filter},
                      ![t].acc = BreakDownOne(@, public_keys, filter)]
    /\ UNCHANGED <<public_keys, now, call, lock, committed, checked, opts, sync>>

\* the write guard is dropped at the end of update or update_last_check
ReleaseWrite(t) ==
    /\ t \in DOMAIN task
    /\ task[t].pc = "held"
    /\ task[t].op \in {"update", "update_last_check"}
    /\ task[t].todo = <<>>
    /\ lock' = [lock EXCEPT !.writer = None]
    /\ committed' = Append(committed, [by |-> t, op |-> task[t].op,
                                       arg |-> task[t].arg, at |-> task[t].at])
    /\ task' = [task EXCEPT ![t].pc = "done"]
    /\ UNCHANGED <<public_keys, now, call, checked, opts, sync>>

\* break_down_filters builds its result and drops the read guard
ReleaseRead(t) ==
    /\ t \in DOMAIN task
    /\ task[t].pc = "held"
    /\ task[t].op = "break_down_filters"
    /\ task[t].todo = {}
    /\ lock' = [lock EXCEPT !.readers = @ \ {t}]
    /\ task' = [task EXCEPT
                  ![t].pc = "done",
                  ![t].out = Some([filters |-> task[t].acc.map,
                                   orphans |-> IF task[t].acc.orphans = {} THEN None
                                               ELSE Some(task[t].acc.orphans),
                                   others  |-> IF task[t].acc.others = {} THEN None
                                               ELSE Some(task[t].acc.others),
                                   urls    |-> task[t].acc.urls])]
    /\ UNCHANGED <<public_keys, now, call, committed, checked, opts, sync>>

NextConc ==
    \/ \E t \in Updaters : CallUpdate(t)
    \/ \E t \in Checkers : CallUpdateLastCheck(t)
    \/ \E t \in Breakers : CallBreakDown(t)
    \/ \E t \in Updaters \cup Checkers : AcquireWrite(t)
    \/ \E t \in Breakers : AcquireRead(t)
    \/ \E t \in Updaters : UpdateStep(t)
    \/ \E t \in Checkers : UpdateLastCheckStep(t)
    \/ \E t \in Breakers : BreakDownStep(t)
    \/ \E t \in Updaters \cup Checkers : ReleaseWrite(t)
    \/ \E t \in Breakers : ReleaseRead(t)
    \/ Tick

SpecConc == Init /\ [][NextConc]_vars

----------------------------------------------------------------------------
(* Concurrency: properties checked under SpecConc *)

\* update run whole on pk, its events installed at the given times
RECURSIVE UpdateAt(_, _, _)
UpdateAt(pk, events, times) ==
    IF events = <<>> THEN pk
    ELSE UpdateAt(UpdateOne(pk, Head(events), Head(times)), Tail(events), Tail(times))

\* the graph after the write operations of history h, run one after another
RECURSIVE Replay(_)
Replay(h) ==
    IF h = <<>> THEN EmptyMap
    ELSE LET pre == Replay(SubSeq(h, 1, Len(h) - 1))
             w   == h[Len(h)]
         IN  IF w.op = "update" THEN UpdateAt(pre, w.arg, w.at)
             ELSE UpdateLastCheckLoop(pre, w.arg, w.at[1])

Reading(t) ==
    t \in DOMAIN task /\ task[t].op = "break_down_filters" /\ task[t].pc = "held"

Returned(t, op) ==
    t \in DOMAIN task /\ task[t].op = op /\ task[t].pc = "done"

\* C8 (linearizable ingestion): a task that reads the graph under the read
\* guard finds it as the write operations that have returned leave it when
\* run whole, one after another, in the order of their return: every update
\* that has returned is among them with its whole batch, so each of its events
\* that passed the monotonicity test is observed, and no read finds a batch
\* applied in part.  The same holds of the graph whenever no writer is inside.
C8_Linearizable ==
    /\ \A t \in Breakers : Reading(t) => public_keys = Replay(committed)
    /\ lock.writer = None => public_keys = Replay(committed)
    /\ \A t \in Updaters :
          Returned(t, "update") =>
              /\ \E i \in 1..Len(committed) :
                    committed[i].by = t /\ committed[i].arg = task[t].arg
              /\ \A j \in 1..Len(task[t].arg) :
                    LET e == task[t].arg[j]
                    IN  e.kind \in ListKinds =>
                            /\ e.pubkey \in DOMAIN public_keys
                            /\ CreatedAtOf(public_keys, e.pubkey, e.kind) >= e.created_at

\* a reader is inside after an update of two events has returned, while the
\* other updater waits for the lock
C8_ReadAfterBatch ==
    \E b \in Breakers, u, w \in Updaters :
        /\ Reading(b)
        /\ Returned(u, "update")
        /\ w \in DOMAIN task /\ task[w].pc = "waiting"
        /\ Cardinality(DOMAIN public_keys) = 2

\* C9 (snapshot consistency): break_down_filters takes the read guard once;
\* while it holds the guard no write operation returns, and its result is the
\* result of break_down_filters on the one graph it found when it took the
\* guard, which is the graph after some of the write operations run whole and
\* before all the others.
C9_Snapshot ==
    \A t \in Breakers :
        /\ Reading(t) => task[t].seen = Len(committed)
        /\ Returned(t, "break_down_filters") =>
              /\ task[t].seen <= Len(committed)
              /\ task[t].out =
                    Some(break_down_filters(
                            Replay(SubSeq(committed, 1, task[t].seen)), task[t].arg))

\* a reader has returned filters for a relay from a graph that one write
\* operation had left, and another write operation has returned since
C9_ReadBetweenWriters ==
    \E t \in Breakers :
        /\ Returned(t, "break_down_filters")
        /\ task[t].seen >= 1
        /\ Len(committed) > task[t].seen
        /\ DOMAIN task[t].out[1].filters # {}
        /\ break_down_filters(Replay(committed), task[t].arg) # task[t].out[1]

----------------------------------------------------------------------------
(* The cap on stored lists: SpecCap *)

\* a relay list longer than the cap, with every annotation
LongList ==
    <<Tag("r1", None), Tag("r2", Some("Write")), Tag("r3", Some("Read")),
      Tag("r4", None), Tag("r5", Some("Write")), Tag("r6", Some("Read")),
      Tag("r7", None)>>

\* relay lists offered under SpecCap: the prefixes of LongList, one of its
\* segments, and a list that names a relay twice among its first entries
CapTags ==
    {SubSeq(LongList, 1, j) : j \in 0..Len(LongList)}
    \cup {SubSeq(LongList, 3, Len(LongList)),
          <<Tag("r1", None), Tag("r1", Some("Write"))>> \o SubSeq(LongList, 2, 6)}

CapEvents ==
    {Event("A", kind, c, tags) :
        kind \in ListKinds, c \in 0..MaxCreatedAt, tags \in CapTags}

CapBatches == {<<e>> : e \in CapEvents}

NextCap ==
    \/ Update(CapBatches)
    \/ Return

SpecCap == Init /\ [][NextCap]_vars

\* the collection built from the first MAX_RELAYS_LIST entries of an event,
\* in the order of the event: a later entry for a url replaces an earlier one
CappedContentOf(e) ==
    LET first == {i \in 1..Len(e.tags) : i <= MAX_RELAYS_LIST}
    IN  IF e.kind = "RelayList"
        THEN [u \in {e.tags[i].url : i \in first} |->
                 e.tags[CHOOSE i \in first :
                           /\ e.tags[i].url = u
                           /\ \A j \in first : j > i => e.tags[j].url # u].meta]
        ELSE {e.tags[i].url : i \in first}

\* the number of entries of a stored list
EntriesOf(list, kind) ==
    Cardinality(IF kind = "RelayList" THEN DOMAIN list.collection ELSE list.collection)

C11_Step ==
    /\ \A k \in DOMAIN public_keys', kind \in ListKinds :
          EntriesOf(ListOf(public_keys', k, kind), kind) <= MAX_RELAYS_LIST
    /\ IsUpdateStep =>
          \A k \in DOMAIN public_keys', kind \in ListKinds :
              LET new == ListOf(public_keys', k, kind)
              IN  \/ k \in DOMAIN public_keys /\ new = ListOf(public_keys, k, kind)
                  \/ k \notin DOMAIN public_keys /\ EntriesOf(new, kind) = 0
                  \/ \E i \in 1..Len(call'.events) :
                        LET e == call'.events[i]
                        IN  /\ e.pubkey = k /\ e.kind = kind
                            /\ new.event_created_at = e.created_at
                            /\ new.collection = CappedContentOf(e)

\* C11 (cap): after every step every stored NIP-65 list and every stored
\* NIP-17 list has at most MAX_RELAYS_LIST entries, and a list that an update
\* call installs is the one built from the first MAX_RELAYS_LIST entries of
\* its event, in the order of the event.
C11_Cap == [][C11_Step]_vars

\* an event that names more relays than the cap has been ingested, and the
\* stored list holds MAX_RELAYS_LIST of them
C11_Truncated ==
    /\ call.op = "update"
    /\ LET e == call.events[1]
       IN  /\ Cardinality({e.tags[i].url : i \in 1..Len(e.tags)}) > MAX_RELAYS_LIST
           /\ e.pubkey \in DOMAIN public_keys
           /\ ListOf(public_keys, e.pubkey, e.kind).collection = CappedContentOf(e)
           /\ EntriesOf(ListOf(public_keys, e.pubkey, e.kind), e.kind) = MAX_RELAYS_LIST

----------------------------------------------------------------------------
(* Staleness: check_outdated and update_last_check, SpecStale *)

\* use super::constant::{CHECK_OUTDATED_INTERVAL, PUBKEY_METADATA_OUTDATED_AFTER}
\* (the constants' file is not part of the sources at hand; the design gives
\* them as tunables of about an hour).  In seconds, and scaled down to a few
\* seconds so that the clock can be followed past them.
CHECK_OUTDATED_INTERVAL == 2

PUBKEY_METADATA_OUTDATED_AFTER == 3

\* the clock is followed for StaleTicks seconds under SpecStale
StaleTicks == 5

\* variant of RecentlyChecked
RecentlyCheckedInclusive(lists, t) == lists.last_check + CHECK_OUTDATED_INTERVAL >= t

\* lists.last_check + CHECK_OUTDATED_INTERVAL > now
RecentlyChecked(lists, t) == lists.last_check + CHECK_OUTDATED_INTERVAL > t

\* "Check if collections are empty"
IsEmpty(lists) == lists.nip17.collection = {} \/ DOMAIN lists.nip65.collection = {}

\* "Check if expired"
IsExpired(lists, t) ==
    \/ lists.nip17.last_update + PUBKEY_METADATA_OUTDATED_AFTER < t
    \/ lists.nip65.last_update + PUBKEY_METADATA_OUTDATED_AFTER < t

\* check_outdated under one read guard, the clock read at t
check_outdated(map, keys, t) ==
    {public_key \in keys :
        IF public_key \in DOMAIN map
        THEN /\ ~RecentlyChecked(map[public_key], t)
             /\ IsEmpty(map[public_key]) \/ IsExpired(map[public_key], t)
        ELSE TRUE}

\* the elements of a sequence
Range(s) == {s[i] : i \in 1..Len(s)}

\* variant of CheckOutdated: the check marks the keys it reports as checked
CheckOutdatedMarking(keysets) ==
    \E keys \in keysets :
        LET out == check_outdated(public_keys, keys, now)
        IN  /\ call.op = "idle"
            /\ call' = [Idle EXCEPT !.op = "check_outdated", !.runs = 1,
                                    !.keys = keys, !.out = out]
            /\ public_keys' = [k \in DOMAIN public_keys |->
                                  IF k \in out
                                  THEN [public_keys[k] EXCEPT !.last_check = now]
                                  ELSE public_keys[k]]
            /\ UNCHANGED <<now, conc_vars, checked, opts, sync>>

\* graph.check_outdated(keys).await by the idle caller
CheckOutdated(keysets) ==
    \E keys \in keysets :
        /\ call.op = "idle"
        /\ call' = [Idle EXCEPT !.op = "check_outdated", !.runs = 1, !.keys = keys,
                                !.out = check_outdated(public_keys, keys, now)]
        /\ UNCHANGED <<public_keys, now, conc_vars, checked, opts, sync>>

\* graph.update_last_check(keys).await by the idle caller
UpdateLastCheck(keyseqs) ==
    \E keys \in keyseqs :
        /\ call.op = "idle"
        /\ public_keys' = UpdateLastCheckLoop(public_keys, keys, now)
        /\ checked' = [k \in DOMAIN checked \cup Range(keys) |->
                          IF k \in Range(keys) THEN now ELSE checked[k]]
        /\ call' = [Idle EXCEPT !.op = "update_last_check", !.runs = 1,
                                !.keys = Range(keys)]
        /\ UNCHANGED <<now, conc_vars, opts, sync>>

\* a second passes between two calls of the caller
TickIdle ==
    /\ call.op = "idle"
    /\ now < Now0 + StaleTicks
    /\ now' = now + 1
    /\ UNCHANGED <<public_keys, call, conc_vars, checked, opts, sync>>

\* events offered under SpecStale: both lists of key A, and an event of key B
\* that is no relay list
StaleEvents ==
    {Event("A", "RelayList", 1, <<Tag("r1", None)>>),
     Event("A", "InboxRelays", 1, <<Tag("r2", None)>>),
     Event("B", "TextNote", 1, <<>>)}

StaleBatches == {<<e>> : e \in StaleEvents}

StaleKeySeqs == {<<"A">>, <<"B">>, <<"B", "A">>}

NextStale ==
    \/ Update(StaleBatches)
    \/ UpdateLastCheck(StaleKeySeqs)
    \/ CheckOutdated(SUBSET Keys)
    \/ Return
    \/ TickIdle

SpecStale == Init /\ [][NextStale]_vars

\* the empty/expired rule of check_outdated for the record of key k
EmptyOrExpired(k) ==
    \/ public_keys[k].nip17.collection = {}
    \/ DOMAIN public_keys[k].nip65.collection = {}
    \/ public_keys[k].nip17.last_update + PUBKEY_METADATA_OUTDATED_AFTER < now
    \/ public_keys[k].nip65.last_update + PUBKEY_METADATA_OUTDATED_AFTER < now

\* C12 (check_outdated result): the returned set holds only requested keys,
\* and a requested key is in it iff it has no record, or its record has
\* last_check + CHECK_OUTDATED_INTERVAL <= now and one of its lists is empty
\* or has last_update + PUBKEY_METADATA_OUTDATED_AFTER < now.
C12_CheckOutdated ==
    call.op = "check_outdated" =>
        /\ call.out \subseteq call.keys
        /\ \A k \in call.keys :
              k \in call.out <=>
                  \/ k \notin DOMAIN public_keys
                  \/ /\ public_keys[k].last_check + CHECK_OUTDATED_INTERVAL <= now
                     /\ EmptyOrExpired(k)

\* check_outdated has reported key A, whose two lists are stored and have
\* expired, exactly CHECK_OUTDATED_INTERVAL after its last check, and has
\* left out key B, not requested and without a record
C12_ExpiredReported ==
    /\ call.op = "check_outdated"
    /\ call.keys = {"A"} /\ call.out = {"A"}
    /\ "A" \in DOMAIN public_keys
    /\ "B" \notin DOMAIN public_keys
    /\ public_keys["A"].nip17.collection # {}
    /\ DOMAIN public_keys["A"].nip65.collection # {}
    /\ public_keys["A"].last_check > 0
    /\ public_keys["A"].last_check + CHECK_OUTDATED_INTERVAL = now

\* C19 (recent-check suppression): a key that update_last_check named last at
\* time t is left out by every check_outdated call made while
\* t + CHECK_OUTDATED_INTERVAL > now, whatever its lists hold and whatever
\* update calls came between; from t + CHECK_OUTDATED_INTERVAL on, a call that
\* asks for the key reports it iff one of its lists is empty or expired.
C19_Suppressed ==
    call.op = "check_outdated" =>
        \A k \in DOMAIN checked :
            /\ checked[k] + CHECK_OUTDATED_INTERVAL > now => k \notin call.out
            /\ (checked[k] + CHECK_OUTDATED_INTERVAL <= now /\ k \in call.keys) =>
                  /\ k \in DOMAIN public_keys
                  /\ k \in call.out <=> EmptyOrExpired(k)

\* check_outdated has left out key B, asked for and with both lists empty,
\* one second after update_last_check named it; key A, whose lists an update
\* call stored after update_last_check named it, is left out too
C19_RecentOmitted ==
    /\ call.op = "check_outdated"
    /\ call.keys = Keys /\ call.out = {}
    /\ "B" \in DOMAIN checked /\ checked["B"] + 1 = now
    /\ public_keys["B"].nip17.collection = {}
    /\ DOMAIN public_keys["B"].nip65.collection = {}
    /\ "A" \in DOMAIN checked
    /\ public_keys["A"].nip65.last_update > checked["A"]

\* this step is a call of update_last_check
IsUpdateLastCheckStep == call.op = "idle" /\ call'.op = "update_last_check"

\* the keys that author a RelayList or InboxRelays event of the batch
ListAuthors(events) ==
    {events[i].pubkey : i \in {j \in 1..Len(events) : events[j].kind \in ListKinds}}

C15_Step ==
    DOMAIN public_keys' =
        DOMAIN public_keys
        \cup (IF IsUpdateStep THEN ListAuthors(call'.events) ELSE {})
        \cup (IF IsUpdateLastCheckStep THEN call'.keys ELSE {})

\* C15 (record existence): the graph starts without a record, and every step
\* keeps the records there are and adds exactly the records of the keys that
\* author a RelayList or InboxRelays event ingested by the step's update call
\* or that the step's update_last_check call names.
C15_RecordExists == [][C15_Step]_vars

\* update has ingested an event of key B that is no relay list: B has no
\* record, while key A has one
C15_OtherKindNoRecord ==
    /\ call.op = "update"
    /\ call.events[1].pubkey = "B"
    /\ call.events[1].kind \notin ListKinds
    /\ DOMAIN public_keys = {"A"}

----------------------------------------------------------------------------
(* RelayOptions builders: SpecOptions *)

\* Durations handed to the builders, in milliseconds, around MIN_RETRY_INTERVAL
Durations == {0, 4999, 5000, 5001, 10000, 60000}

\* seconds handed to retry_sec
Seconds == {0, 4, 5, 6}

\* the caller's last builder call, with its argument
Built(op, arg) == [Idle EXCEPT !.op = op, !.arg = Some(arg)]

\* RelayOptions::new()
New ==
    /\ opts' = RelayOptionsDefault
    /\ call' = [Idle EXCEPT !.op = "new"]
    /\ UNCHANGED <<public_keys, now, conc_vars, checked, sync>>

\* opts = opts.reconnect(on)
SetReconnect ==
    \E on \in BOOLEAN :
        /\ opts' = reconnect(opts, on)
        /\ call' = Built("reconnect", on)
        /\ UNCHANGED <<public_keys, now, conc_vars, checked, sync>>

\* opts = opts.retry_interval(interval)
SetRetryInterval ==
    \E interval \in Durations :
        /\ opts' = retry_interval(opts, interval)
        /\ call' = Built("retry_interval", interval)
        /\ UNCHANGED <<public_keys, now, conc_vars, checked, sync>>

\* opts = opts.retry_sec(secs)
SetRetrySec ==
    \E secs \in Seconds :
        /\ opts' = retry_sec(opts, secs)
        /\ call' = Built("retry_sec", secs)
        /\ UNCHANGED <<public_keys, now, conc_vars, checked, sync>>

\* opts = opts.adjust_retry_interval(on)
SetAdjustRetryInterval ==
    \E on \in BOOLEAN :
        /\ opts' = adjust_retry_interval(opts, on)
        /\ call' = Built("adjust_retry_interval", on)
        /\ UNCHANGED <<public_keys, now, conc_vars, checked, sync>>

\* opts = opts.max_avg_latency(max)
SetMaxAvgLatency ==
    \E max \in {None, Some(1000)} :
        /\ opts' = max_avg_latency(opts, max)
        /\ call' = Built("max_avg_latency", max)
        /\ UNCHANGED <<public_keys, now, conc_vars, checked, sync>>

NextOptions ==
    \/ New
    \/ SetReconnect
    \/ SetRetryInterval
    \/ SetRetrySec
    \/ SetAdjustRetryInterval
    \/ SetMaxAvgLatency

SpecOptions == Init /\ [][NextOptions]_vars

C13_Step ==
    /\ call.op = "idle" => opts.retry_interval = 10 * 1000
    /\ call'.op = "new" => opts'.retry_interval = 10 * 1000
    /\ opts.retry_interval >= 5 * 1000
    /\ opts'.retry_interval >= 5 * 1000
    /\ call'.op = "retry_interval" =>
          LET d == call'.arg[1]
          IN  IF d < 5 * 1000 THEN opts' = opts
              ELSE opts' = [opts EXCEPT !.retry_interval = d]

\* C13 (retry interval floor): RelayOptions starts with retry_interval = 10 s;
\* over every chain of builder calls retry_interval stays >= 5 s; the call
\* retry_interval(d) with d < 5 s returns the options it was given, every
\* field as before, and with d >= 5 s it sets retry_interval to d and nothing
\* else.
C13_RetryFloor == [][C13_Step]_vars

\* retry_interval has been called with less than 5 s on options whose
\* retry_interval and reconnect had been set before, and has kept them
C13_TooShortIgnored ==
    /\ call.op = "retry_interval"
    /\ call.arg[1] = 4999
    /\ opts.retry_interval = 60000
    /\ ~opts.reconnect

----------------------------------------------------------------------------
(* The two-key scenario of tests::test_break_down_filters: SpecScenario *)

\* KEY_A_RELAYS
KEY_A_RELAYS ==
    <<Tag("damus", None), Tag("nostr.bg", None),
      Tag("nos.lol", Some("Write")), Tag("nostr.mom", Some("Read"))>>

\* KEY_B_RELAYS
KEY_B_RELAYS ==
    <<Tag("damus", Some("Write")), Tag("nostr.info", None),
      Tag("relay.rip", Some("Write")), Tag("snort", Some("Read"))>>

\* build_relay_list_event
build_relay_list_event(key, relays) == Event(key, "RelayList", 1, relays)

\* the batch of setup_graph, and its two events alone
ScenarioBatches ==
    {<<build_relay_list_event("A", KEY_A_RELAYS),
       build_relay_list_event("B", KEY_B_RELAYS)>>,
     <<build_relay_list_event("A", KEY_A_RELAYS)>>,
     <<build_relay_list_event("B", KEY_B_RELAYS)>>}

\* the filters of the test
AuthorFilter == Filter(Some({"A"}), None, None)

AuthorsFilter == Filter(Some({"A", "B"}), None, None)

AuthorBFilter == Filter(Some({"B"}), None, None)

SearchFilter == Filter(None, None, Some("Test"))

PTagFilter == Filter(None, Some({HexOf("A")}), None)

BothFilter == Filter(Some({"A"}), Some({HexOf("B")}), None)

RandomFilter == Filter(Some({"random"}), None, None)

ScenarioFilters ==
    {AuthorFilter, AuthorsFilter, SearchFilter, PTagFilter, BothFilter, RandomFilter}

NextScenario ==
    \/ Update(ScenarioBatches)
    \/ BreakDown(SUBSET ScenarioFilters)
    \/ Return

SpecScenario == Init /\ [][NextScenario]_vars

\* the graph holds the relay lists of both keys
ScenarioGraph ==
    /\ DOMAIN public_keys = {"A", "B"}
    /\ DOMAIN public_keys["A"].nip65.collection = {t.url : t \in Range(KEY_A_RELAYS)}
    /\ DOMAIN public_keys["B"].nip65.collection = {t.url : t \in Range(KEY_B_RELAYS)}

\* the p={A} filter has been broken down together with the authors={A,B}
\* filter, with or without the search filter
ScenarioThree ==
    /\ ScenarioGraph
    /\ BrokenDown
    /\ {PTagFilter, AuthorsFilter} \subseteq call.filters
    /\ call.filters \subseteq {PTagFilter, AuthorsFilter, SearchFilter}

\* the filters returned for relay u, none when u is no key of the map
At(u) == IF u \in DOMAIN call.out.filters THEN call.out.filters[u] ELSE {}

\* C14 as stated: the p={A} filter is at nostr.mom and joins the sets of
\* damus, nostr.bg and nos.lol; snort.social receives nothing.
C14_JoinsWriteRelays ==
    ScenarioThree =>
        /\ At("nostr.mom") = {PTagFilter}
        /\ \A u \in {"damus", "nostr.bg", "nos.lol"} : PTagFilter \in At(u)
        /\ "snort" \notin DOMAIN call.out.filters

\* C14 (amended): the p={A} filter is at nostr.mom and joins the sets of the
\* relays A lists without annotation, damus and nostr.bg; nos.lol, which A
\* lists as Write, keeps the authors={A} filter alone, the relays of B alone
\* get authors={B}, and snort.social receives nothing.
C14_JoinsReadRelays ==
    ScenarioThree =>
        /\ DOMAIN call.out.filters =
              {"damus", "nostr.bg", "nos.lol", "nostr.mom", "nostr.info", "relay.rip"}
        /\ At("nostr.mom") = {PTagFilter}
        /\ At("damus") = {PTagFilter, AuthorsFilter}
        /\ At("nostr.bg") = {PTagFilter, AuthorFilter}
        /\ At("nos.lol") = {AuthorFilter}
        /\ At("nostr.info") = {AuthorBFilter}
        /\ At("relay.rip") = {AuthorBFilter}
        /\ call.out.orphans = None
        /\ call.out.others =
              (IF SearchFilter \in call.filters THEN Some({SearchFilter}) ELSE None)

\* the three filters of the test have been broken down on the graph of
\* setup_graph
C14_ThreeFilters ==
    /\ ScenarioThree
    /\ call.filters = {PTagFilter, AuthorsFilter, SearchFilter}
    /\ PTagFilter \in At("nostr.mom")
    /\ PTagFilter \notin At("nos.lol")

----------------------------------------------------------------------------
(* Independent versioning of the two lists, checked under SpecStale *)

\* the batch holds an event of `kind` authored by k
HasEvent(events, k, kind) ==
    \E i \in 1..Len(events) : events[i].pubkey = k /\ events[i].kind = kind

C16_Step ==
    IsUpdateStep =>
        \A k \in DOMAIN public_keys :
            /\ k \in DOMAIN public_keys'
            /\ ~HasEvent(call'.events, k, "InboxRelays") =>
                  public_keys'[k].nip17 = public_keys[k].nip17
            /\ ~HasEvent(call'.events, k, "RelayList") =>
                  public_keys'[k].nip65 = public_keys[k].nip65
            /\ public_keys'[k].last_check = public_keys[k].last_check

\* C16 (independent versioning): an update call that ingests a RelayList
\* event of a key with a record leaves the key's NIP-17 list as it was
\* (collection, event_created_at, last_update), one that ingests an
\* InboxRelays event leaves its NIP-65 list as it was; neither changes
\* last_check, and neither changes the record of another key.
C16_Independent == [][C16_Step]_vars

\* a RelayList event of key A has been installed at a later time than A's
\* NIP-17 list, after update_last_check had named A and B
C16_OtherListKept ==
    /\ call.op = "update"
    /\ call.events[1].kind = "RelayList" /\ call.events[1].pubkey = "A"
    /\ DOMAIN public_keys = {"A", "B"}
    /\ public_keys["A"].nip65.last_update = now
    /\ public_keys["A"].nip17.collection # {}
    /\ public_keys["A"].nip17.last_update < now
    /\ public_keys["A"].last_check > 0
    /\ public_keys["B"].last_check > 0

----------------------------------------------------------------------------
(* The public relay queries: SpecQueries *)

\* graph.get_nip65_outbox_relays(keys).await by the idle caller
GetNip65Outbox ==
    \E keys \in SUBSET Keys :
        /\ call.op = "idle"
        /\ call' = [Idle EXCEPT !.op = "get_nip65_outbox_relays", !.runs = 1,
                                !.keys = keys,
                                !.out = get_nip65_outbox_relays(public_keys, keys)]
        /\ UNCHANGED <<public_keys, now, conc_vars, checked, opts, sync>>

\* graph.get_nip65_inbox_relays(keys).await by the idle caller
GetNip65Inbox ==
    \E keys \in SUBSET Keys :
        /\ call.op = "idle"
        /\ call' = [Idle EXCEPT !.op = "get_nip65_inbox_relays", !.runs = 1,
                                !.keys = keys,
                                !.out = get_nip65_inbox_relays(public_keys, keys)]
        /\ UNCHANGED <<public_keys, now, conc_vars, checked, opts, sync>>

\* graph.get_nip17_inbox_relays(keys).await by the idle caller
GetNip17Inbox ==
    \E keys \in SUBSET Keys :
        /\ call.op = "idle"
        /\ call' = [Idle EXCEPT !.op = "get_nip17_inbox_relays", !.runs = 1,
                                !.keys = keys,
                                !.out = get_nip17_inbox_relays(public_keys, keys)]
        /\ UNCHANGED <<public_keys, now, conc_vars, checked, opts, sync>>

NextQueries ==
    \/ Update(RoutingBatches)
    \/ GetNip65Outbox
    \/ GetNip65Inbox
    \/ GetNip17Inbox
    \/ Return

SpecQueries == Init /\ [][NextQueries]_vars

\* the relays that a key of `keys` with a record stores in its NIP-65 list
\* with one of the annotations `metas`
StoredWith(keys, metas) ==
    {u \in Relays :
        \E k \in keys :
            /\ k \in DOMAIN public_keys
            /\ u \in DOMAIN public_keys[k].nip65.collection
            /\ public_keys[k].nip65.collection[u] \in metas}

\* the relays that a key of `keys` with a record stores in its NIP-17 list
StoredDirect(keys) ==
    {u \in Relays :
        \E k \in keys : k \in DOMAIN public_keys /\ u \in public_keys[k].nip17.collection}

\* C17 (relay selection predicate): get_nip65_outbox_relays(keys) returns
\* exactly the relays some listed key stores as Write or without annotation,
\* get_nip65_inbox_relays(keys) those stored as Read or without annotation,
\* get_nip17_inbox_relays(keys) every relay of the listed keys' NIP-17 lists,
\* and the internal query with metadata = None every NIP-65 entry whatever
\* its annotation; a key without a record contributes nothing.
C17_Selection ==
    /\ call.op = "get_nip65_outbox_relays" =>
          call.out = StoredWith(call.keys, {None, Some("Write")})
    /\ call.op = "get_nip65_inbox_relays" =>
          call.out = StoredWith(call.keys, {None, Some("Read")})
    /\ call.op = "get_nip17_inbox_relays" => call.out = StoredDirect(call.keys)
    /\ \A keys \in SUBSET Keys :
          get_nip65_relays(public_keys, keys, None) = StoredWith(keys, MetaOpts)

\* the outbox relays of both keys have been asked for while only key A has a
\* record: its Write relay r2 is returned, its Read relay r1 is not
C17_OutboxOfKnownKey ==
    /\ call.op = "get_nip65_outbox_relays"
    /\ call.keys = Keys
    /\ DOMAIN public_keys = {"A"}
    /\ DOMAIN public_keys["A"].nip65.collection = {"r1", "r2"}
    /\ public_keys["A"].nip65.collection["r1"] = Some("Read")
    /\ public_keys["A"].nip65.collection["r2"] = Some("Write")
    /\ call.out = {"r2"}

----------------------------------------------------------------------------
(* Shape of the result and invalid hex, checked under SpecFilters *)

\* C18 (output well-formedness): in every BrokenDownFilters returned, urls is
\* exactly the set of keys of filters, and no relay of filters maps to an
\* empty set of filters.
C18_WellFormed ==
    BrokenDown =>
        /\ call.out.urls = DOMAIN call.out.filters
        /\ \A u \in DOMAIN call.out.filters : call.out.filters[u] # {}

\* a result with filters at two relays, and an orphan beside them or none
C18_TwoRelays ==
    /\ BrokenDown
    /\ call.filters # {}
    /\ DOMAIN call.out.filters = Relays
    /\ call.out.urls = Relays

\* the filter has authors and a `p` list of which no string is the hex of a key
OnlyInvalidHex(f) ==
    /\ f.authors # None
    /\ f.p # None
    /\ f.p[1] # {}
    /\ \A s \in f.p[1] : s \notin {"aa", "AA", "bb", "BB"}

\* C20 as stated: a filter with authors whose p-tag list holds only invalid
\* hex is handled by the branch for authors and p-tag with an empty relay
\* union, and is placed in orphans.
C20_InvalidHexOrphaned ==
    BrokenDown =>
        \A f \in {x \in call.filters : OnlyInvalidHex(x)} :
            /\ PTag(f) = Some({})
            /\ \A u \in Relays : f \notin FiltersAt(call.out, u)
            /\ f \in Opt(call.out.orphans)

\* the relays of the NIP-65 entries and direct-inbox lists of the authors of f
AuthorRelays(pk, f) ==
    UNION {DOMAIN Nip65Of(pk, k) \cup DirectOf(pk, k) : k \in f.authors[1]}

\* C20 (amended): a filter with authors whose p-tag list holds only invalid
\* hex has p_tag = Some(empty set) and is handled by the branch for authors
\* and p-tag with the authors alone: it is held, unmodified, at exactly the
\* relays of the NIP-65 entries (whatever their annotation) and direct-inbox
\* lists of its authors, and is placed in orphans only when there is none.
C20_InvalidHexAuthorsOnly ==
    BrokenDown =>
        \A f \in {x \in call.filters : OnlyInvalidHex(x)} :
            /\ PTag(f) = Some({})
            /\ \A u \in Relays :
                  f \in FiltersAt(call.out, u) <=> u \in AuthorRelays(public_keys, f)
            /\ f \in Opt(call.out.orphans) <=> AuthorRelays(public_keys, f) = {}
            /\ f \notin Opt(call.out.others)

\* a filter of author A with only invalid hex in its p-tag list is held at
\* the relay that A lists as Read, and is no orphan
C20_InvalidHexRouted ==
    /\ BrokenDown
    /\ \E f \in call.filters :
          /\ OnlyInvalidHex(f)
          /\ f.authors = Some({"A"})
          /\ "A" \in DOMAIN public_keys
          /\ DOMAIN public_keys["A"].nip65.collection = {"r1"}
          /\ public_keys["A"].nip65.collection["r1"] = Some("Read")
          /\ f \in FiltersAt(call.out, "r1")
          /\ call.out.orphans = None

----------------------------------------------------------------------------
(* SyncOptions builders: SpecSync *)

\* SyncOptions::new()
NewSync ==
    /\ sync' = SyncOptionsDefault
    /\ call' = [Idle EXCEPT !.op = "SyncOptions::new"]
    /\ UNCHANGED <<public_keys, now, conc_vars, checked, opts>>

\* sync = sync.initial_timeout(timeout)
SetInitialTimeout ==
    \E timeout \in {0, FromSecs(10), FromSecs(30)} :
        /\ sync' = initial_timeout(sync, timeout)
        /\ call' = Built("initial_timeout", timeout)
        /\ UNCHANGED <<public_keys, now, conc_vars, checked, opts>>

\* sync = sync.direction(dir)
SetDirection ==
    \E dir \in SyncDirections :
        /\ sync' = direction(sync, dir)
        /\ call' = Built("direction", dir)
        /\ UNCHANGED <<public_keys, now, conc_vars, checked, opts>>

\* sync = sync.dry_run()
SetDryRun ==
    /\ sync' = dry_run(sync)
    /\ call' = [Idle EXCEPT !.op = "dry_run"]
    /\ UNCHANGED <<public_keys, now, conc_vars, checked, opts>>

\* sync = sync.progress(sender)
SetProgress ==
    \E sender \in {"tx1", "tx2"} :
        /\ sync' = progress(sync, sender)
        /\ call' = Built("progress", sender)
        /\ UNCHANGED <<public_keys, now, conc_vars, checked, opts>>

\* the reconciliation driver asks sync.do_up() and sync.do_down()
AskDirections ==
    /\ call' = [Idle EXCEPT !.op = "do_up, do_down",
                            !.out = [do_up |-> do_up(sync), do_down |-> do_down(sync)]]
    /\ UNCHANGED <<public_keys, now, conc_vars, checked, opts, sync>>

NextSync ==
    \/ NewSync
    \/ SetInitialTimeout
    \/ SetDirection
    \/ SetDryRun
    \/ SetProgress
    \/ AskDirections

SpecSync == Init /\ [][NextSync]_vars

C26_Step ==
    /\ do_up(sync) <=> (sync.dry_run = FALSE /\ sync.direction \in {"Up", "Both"})
    /\ do_down(sync) <=> (sync.dry_run = FALSE /\ sync.direction \in {"Down", "Both"})
    /\ call.op = "do_up, do_down" =>
          /\ call.out.do_up <=> (~sync.dry_run /\ sync.direction \in {"Up", "Both"})
          /\ call.out.do_down <=> (~sync.dry_run /\ sync.direction \in {"Down", "Both"})
    /\ call.op \in {"idle", "SyncOptions::new"} => ~do_up(sync) /\ do_down(sync)
    /\ (sync.dry_run /\ call'.op # "SyncOptions::new") =>
          /\ sync'.dry_run
          /\ ~do_up(sync') /\ ~do_down(sync')

\* C26 (sync direction predicates): for every SyncOptions value a chain of
\* builder calls makes, do_up holds iff dry_run is false and direction is Up
\* or Both, do_down iff dry_run is false and direction is Down or Both; the
\* defaults give do_down alone; once dry_run() has been applied, every
\* further builder call on the value leaves both false.
C26_Directions == [][C26_Step]_vars

\* after dry_run(), direction(Both) has been applied and both predicates
\* have been asked: both are false
C26_DryRunSticks ==
    /\ call.op = "do_up, do_down"
    /\ sync.dry_run
    /\ sync.direction = "Both"
    /\ sync.progress # None
    /\ ~call.out.do_up /\ ~call.out.do_down

----------------------------------------------------------------------------
(* Skipped and first events: SpecSkip *)

\* events offered under SpecSkip: both lists of key A at every created_at,
\* the epoch included, and an event of another kind
SkipEvents ==
    {Event("A", "RelayList", c, <<Tag("r1", None)>>) : c \in 0..MaxCreatedAt}
    \cup {Event("A", "InboxRelays", c, <<Tag("r2", None)>>) : c \in 0..MaxCreatedAt}
    \cup {Event("A", "TextNote", 1, <<>>)}

SkipBatches == SeqsUpTo(SkipEvents, MaxBatch)

NextSkip ==
    \/ Update(SkipBatches)
    \/ UpdateLastCheck({<<"A">>})
    \/ Return
    \/ Tick

SpecSkip == Init /\ [][NextSkip]_vars

\* update skips the event e on the graph pre: its kind is no list kind, or
\* it is older than the list stored for its key and kind
Skips(pre, e) ==
    \/ e.kind \notin ListKinds
    \/ /\ e.pubkey \in DOMAIN pre
       /\ e.created_at < CreatedAtOf(pre, e.pubkey, e.kind)

\* what ingesting e at time t may change between pre and post
EffectOf(pre, e, post, t) ==
    /\ Skips(pre, e) => post = pre
    /\ \A k \in DOMAIN post, kind \in ListKinds :
          LET new == ListOf(post, k, kind)
          IN  IF ~Skips(pre, e) /\ k = e.pubkey /\ kind = e.kind
              THEN new.last_update = t
              ELSE IF k \in DOMAIN pre THEN new = ListOf(pre, k, kind)
              ELSE new.last_update = 0

C21_Step ==
    IsUpdateStep =>
        LET b == call'.events
            after(i) == UpdateBatch(public_keys, SubSeq(b, 1, i), now)
        IN  /\ after(Len(b)) = public_keys'
            /\ \A i \in 1..Len(b) : EffectOf(after(i - 1), b[i], after(i), now)

\* C21 (skipped events): an event that update is given and that is older than
\* the list stored for its key and kind, or that is neither a RelayList nor
\* an InboxRelays event, leaves the graph exactly as it was, and creates no
\* record; last_update becomes now for the list an event replaces or installs
\* and for no other list.
C21_SkippedNoEffect == [][C21_Step]_vars

\* an older relay list of key A has been skipped, at a later time than the
\* stored one was installed, after update_last_check had named A
C21_OlderSkipped ==
    /\ call.op = "update"
    /\ Len(call.events) = 1
    /\ call.events[1].kind = "RelayList"
    /\ "A" \in DOMAIN public_keys
    /\ call.events[1].created_at < public_keys["A"].nip65.event_created_at
    /\ public_keys["A"].nip65.last_update < now
    /\ public_keys["A"].last_check > 0

\* the list has never been installed: it is as RelayLists::default() made it
NeverInstalled(list) == list.event_created_at = 0 /\ list.last_update = 0

\* the list kind that is not `kind`
OtherKind(kind) == IF kind = "RelayList" THEN "InboxRelays" ELSE "RelayList"

C23_Step ==
    IsUpdateStep =>
        LET b == call'.events
            after(i) == UpdateBatch(public_keys, SubSeq(b, 1, i), now)
        IN  \A i \in 1..Len(b) :
                LET e == b[i]
                    pre == after(i - 1)
                    post == after(i)
                IN  ( /\ e.kind \in ListKinds
                      /\ e.pubkey \in DOMAIN pre
                      /\ NeverInstalled(ListOf(pre, e.pubkey, e.kind)) )
                    => /\ ListOf(post, e.pubkey, e.kind) =
                              [collection       |-> ContentOf(e),
                               event_created_at |-> e.created_at,
                               last_update      |-> now]
                       /\ ListOf(post, e.pubkey, OtherKind(e.kind)) =
                              ListOf(pre, e.pubkey, OtherKind(e.kind))
                       /\ post[e.pubkey].last_check = pre[e.pubkey].last_check

----------------------------------------------------------------------------
(* update_last_check: what it writes and what it leaves *)

C22_Step ==
    IsUpdateLastCheckStep =>
        /\ DOMAIN public_keys' = DOMAIN public_keys \cup call'.keys
        /\ \A k \in call'.keys :
              /\ public_keys'[k].last_check = now
              /\ IF k \in DOMAIN public_keys
                 THEN /\ public_keys'[k].nip65 = public_keys[k].nip65
                      /\ public_keys'[k].nip17 = public_keys[k].nip17
                 ELSE /\ public_keys'[k].nip65 =
                             [collection |-> EmptyMap, event_created_at |-> 0,
                              last_update |-> 0]
                      /\ public_keys'[k].nip17 =
                             [collection |-> {}, event_created_at |-> 0,
                              last_update |-> 0]
        /\ \A k \in DOMAIN public_keys \ call'.keys :
              public_keys'[k] = public_keys[k]

\* C22 (update_last_check): update_last_check(keys) sets last_check to now on
\* the record of each listed key, makes a record with both lists empty and
\* event_created_at at the epoch for a listed key that has none, and leaves
\* both lists of the existing records and the records of all unlisted keys
\* as they were.
C22_LastCheckOnly == [][C22_Step]_vars

\* update_last_check has named both keys: key A keeps the two lists installed
\* earlier, key B has got an empty record, both with last_check = now
C22_BothKeysNamed ==
    /\ call.op = "update_last_check"
    /\ call.keys = Keys
    /\ DOMAIN public_keys = Keys
    /\ DOMAIN public_keys["A"].nip65.collection = {"r1"}
    /\ public_keys["A"].nip17.collection = {"r2"}
    /\ public_keys["A"].nip65.last_update < now
    /\ public_keys["A"].last_check = now
    /\ public_keys["B"] = [DefaultRelayLists EXCEPT !.last_check = now]

----------------------------------------------------------------------------
(* Cancellation: SpecCancel *)

\* a task that calls check_outdated or one of the get_* queries
Queriers == {"q1"}

QueryOps ==
    {"check_outdated", "get_nip65_outbox_relays", "get_nip65_inbox_relays",
     "get_nip17_inbox_relays"}

\* what a query returns on the graph txn, at the time t it read from the clock
QueryResult(op, txn, keys, t) ==
    CASE op = "check_outdated" -> check_outdated(txn, keys, t)
      [] op = "get_nip65_outbox_relays" -> get_nip65_outbox_relays(txn, keys)
      [] op = "get_nip65_inbox_relays" -> get_nip65_inbox_relays(txn, keys)
      [] op = "get_nip17_inbox_relays" -> get_nip17_inbox_relays(txn, keys)

\* a task calls a query with both keys and suspends in read().await
CallQuery(t) ==
    \E op \in QueryOps :
        /\ t \notin DOMAIN task
        /\ task' = Insert(task, t, Waiting(op, Keys, Keys))
        /\ UNCHANGED <<public_keys, now, call, lock, committed, checked, opts, sync>>

\* self.public_keys.read().await of a query completes; check_outdated then
\* reads the clock
AcquireQuery(t) ==
    /\ t \in DOMAIN task
    /\ task[t].pc = "waiting"
    /\ task[t].op \in QueryOps
    /\ CanRead(lock)
    /\ lock' = [lock EXCEPT !.readers = @ \cup {t}]
    /\ task' = [task EXCEPT
                  ![t].pc = "held",
                  ![t].seen = Len(committed),
                  ![t].at = IF task[t].op = "check_outdated" THEN <<now>> ELSE <<>>]
    /\ UNCHANGED <<public_keys, now, call, committed, checked, opts, sync>>

\* the query computes its result through the read guard and drops the guard
ReturnQuery(t) ==
    /\ t \in DOMAIN task
    /\ task[t].pc = "held"
    /\ task[t].op \in QueryOps
    /\ lock' = [lock EXCEPT !.readers = @ \ {t}]
    /\ task' = [task EXCEPT
                  ![t].pc = "done",
                  ![t].todo = {},
                  ![t].out = Some(QueryResult(task[t].op, public_keys, task[t].arg,
                                              IF task[t].at = <<>> THEN 0
                                              ELSE task[t].at[1]))]
    /\ UNCHANGED <<public_keys, now, call, committed, checked, opts, sync>>

\* variant: a future could be dropped between two of its statements
CanCancelAnywhere(pc) == pc \in {"waiting", "held"}

\* a future is dropped only where it is suspended: every operation of the
\* graph has one .await, the acquisition of the lock
CanCancel(pc) == pc = "waiting"

\* the caller drops the future of task t; a guard the future holds is dropped
\* with it
Cancel(t) ==
    /\ t \in DOMAIN task
    /\ CanCancel(task[t].pc)
    /\ task' = [task EXCEPT ![t].pc = "cancelled"]
    /\ lock' = [writer  |-> IF lock.writer = Some(t) THEN None ELSE lock.writer,
                readers |-> lock.readers \ {t}]
    /\ UNCHANGED <<public_keys, now, call, committed, checked, opts, sync>>

\* one task for each kind of operation
CancelTasks == {"u1", "c1", "b1", "q1"}

NextCancel ==
    \/ CallUpdate("u1")
    \/ CallUpdateLastCheck("c1")
    \/ CallBreakDown("b1")
    \/ CallQuery("q1")
    \/ \E t \in {"u1", "c1"} : AcquireWrite(t)
    \/ AcquireRead("b1")
    \/ AcquireQuery("q1")
    \/ UpdateStep("u1")
    \/ UpdateLastCheckStep("c1")
    \/ BreakDownStep("b1")
    \/ \E t \in {"u1", "c1"} : ReleaseWrite(t)
    \/ ReleaseRead("b1")
    \/ ReturnQuery("q1")
    \/ \E t \in CancelTasks : Cancel(t)
    \/ Tick

SpecCancel == Init /\ [][NextCancel]_vars

Cancelled(t) == t \in DOMAIN task /\ task[t].pc = "cancelled"

\* C24 (cancellation safety): an operation is cancelled only while it waits
\* for the lock, so a cancelled operation has read nothing of the graph and
\* the clock, has built no result, holds no guard and is not among the write
\* operations; a guard is held by a running operation only; and whenever no
\* writer is inside, the graph is what the write operations that returned
\* leave when run whole, so no batch stays applied in part.
C24_CancelSafe ==
    /\ \A t \in CancelTasks :
          Cancelled(t) =>
              /\ task[t].todo = task[t].arg
              /\ task[t].acc = NoFilters
              /\ task[t].at = <<>>
              /\ task[t].seen = 0
              /\ task[t].out = None
              /\ lock.writer # Some(t) /\ t \notin lock.readers
              /\ \A i \in 1..Len(committed) : committed[i].by # t
    /\ \A t \in CancelTasks :
          (lock.writer = Some(t) \/ t \in lock.readers) =>
              t \in DOMAIN task /\ task[t].pc = "held"
    /\ lock.writer = None => public_keys = Replay(committed)

\* update was cancelled while update_last_check was inside with one of its
\* two keys written, and a query was cancelled too
C24_CancelledBehindWriter ==
    /\ Cancelled("u1")
    /\ Cancelled("q1")
    /\ lock.writer = Some("c1")
    /\ Len(task["c1"].todo) = 1
    /\ public_keys # EmptyMap

----------------------------------------------------------------------------
(* The facets the graph does not read: SpecFacets *)

\* filters offered under SpecFacets: of every shape, with and without a
\* search string, which stands for the facets break_down_filters never reads
FacetFilters ==
    {Filter(a, p, s) : a \in {None, Some({"A"}), Some(Keys)},
                       p \in {None, Some({"aa", "bb"}), Some({"bb", "zz"})},
                       s \in {None, Some("Test")}}

FacetBatches == SubsetsUpTo(FacetFilters, MaxFilters)

NextFacets ==
    \/ Update(RoutingBatches)
    \/ BreakDown(FacetBatches)
    \/ Return

SpecFacets == Init /\ [][NextFacets]_vars

\* the emitted filter g comes from the input filter f by the rule of f's case
FacetsKept(f, g) ==
    \/ /\ IsCase1(f)
       /\ g.authors # None /\ g.authors[1] \subseteq f.authors[1]
       /\ g = [f EXCEPT !.authors = g.authors]
    \/ /\ IsCase2(f)
       /\ g.p # None /\ g.p[1] \subseteq f.p[1]
       /\ g = [f EXCEPT !.p = g.p]
    \/ IsCase3(f) /\ g = f

\* C25 (facet preservation): every filter the result holds at a relay comes
\* from an input filter: from one with authors only, and then it differs from
\* it in the authors and nothing else; from one with a p-tag only, and then it
\* differs from it in the p-tag list and nothing else; or from one with both,
\* and then it is equal to it.  The search string, like every facet the
\* decomposition does not read, is that of the input.
C25_FacetsPreserved ==
    BrokenDown =>
        /\ \A u \in DOMAIN call.out.filters :
              \A g \in call.out.filters[u] : \E f \in call.filters : FacetsKept(f, g)
        /\ \A f \in call.filters :
              (f.search # None /\ ~IsCase4(f) /\ DerivedFor(public_keys, f) # {}) =>
                  \E u \in DOMAIN call.out.filters :
                      \E g \in call.out.filters[u] :
                          FacetsKept(f, g) /\ g.search = f.search

\* a filter with both keys as authors and a search string has been narrowed
\* to author A at relay r1, with the search string of its input
C25_SearchKept ==
    /\ BrokenDown
    /\ "r1" \in DOMAIN call.out.filters
    /\ Filter(Some({"A"}), None, Some("Test")) \in call.out.filters["r1"]
    /\ Filter(Some(Keys), None, Some("Test")) \in call.filters

----------------------------------------------------------------------------
(* Decomposition: no key lost (checked under SpecFilters) *)

\* C27 (no author lost): for every input filter with authors and no p-tag,
\* each of its authors that has an outbox relay (Write or unannotated) or a
\* direct-inbox relay is among the authors of a filter the result holds at
\* some relay, also when another author lists the same relay in its
\* direct-inbox list; and for every input filter with a p-tag and no authors,
\* each of its keys that has an inbox or a direct-inbox relay is in the p-tag
\* list of a filter the result holds at some relay.
C27_NoKeyLost ==
    BrokenDown =>
        /\ \A f \in {x \in call.filters : IsCase1(x)} :
              \A a \in f.authors[1] :
                  OutboxOf(public_keys, a) \cup DirectOf(public_keys, a) # {} =>
                      \E u \in DOMAIN call.out.filters :
                          \E g \in call.out.filters[u] :
                              IsCase1(g) /\ a \in g.authors[1]
        /\ \A f \in {x \in call.filters : IsCase2(x)} :
              \A k \in PTag(f)[1] :
                  InboxOf(public_keys, k) \cup DirectOf(public_keys, k) # {} =>
                      \E u \in DOMAIN call.out.filters :
                          \E g \in call.out.filters[u] :
                              IsCase2(g) /\ HexOf(k) \in g.p[1]

----------------------------------------------------------------------------
(* Reads leave the graph alone: SpecReads *)

\* the filters handed to break_down_filters under SpecReads
ReadFilters ==
    {{Filter(Some({"A"}), None, None)}, {Filter(None, Some({"aa", "bb"}), None)}}

NextReads ==
    \/ Update(StaleBatches)
    \/ UpdateLastCheck(StaleKeySeqs)
    \/ CheckOutdated(SUBSET Keys)
    \/ GetNip65Outbox
    \/ GetNip65Inbox
    \/ GetNip17Inbox
    \/ BreakDown(ReadFilters)
    \/ Return
    \/ TickIdle

SpecReads == Init /\ [][NextReads]_vars

ReadOps ==
    {"check_outdated", "get_nip65_outbox_relays", "get_nip65_inbox_relays",
     "get_nip17_inbox_relays", "break_down_filters"}

\* the step is a call of a read operation
IsReadStep == call.op = "idle" /\ call'.op \in ReadOps

\* check_outdated at time t reports key k on the graph pk
OutdatedAt(pk, k, t) ==
    \/ k \notin DOMAIN pk
    \/ /\ pk[k].last_check + CHECK_OUTDATED_INTERVAL <= t
       /\ \/ pk[k].nip17.collection = {}
          \/ DOMAIN pk[k].nip65.collection = {}
          \/ pk[k].nip17.last_update + PUBKEY_METADATA_OUTDATED_AFTER < t
          \/ pk[k].nip65.last_update + PUBKEY_METADATA_OUTDATED_AFTER < t

\* the step is an update_last_check that names k, or an update whose batch
\* holds a list event of k
Refreshes(k) ==
    \/ IsUpdateLastCheckStep /\ k \in call'.keys
    \/ IsUpdateStep /\ k \in ListAuthors(call'.events)

C28_Step ==
    /\ IsReadStep => public_keys' = public_keys
    /\ (IsReadStep /\ call'.op = "check_outdated") =>
          call'.out = {k \in call'.keys : OutdatedAt(public_keys, k, now)}
    /\ \A k \in Keys :
          (OutdatedAt(public_keys, k, now) /\ ~Refreshes(k)) =>
              OutdatedAt(public_keys', k, now')

\* C28 (reads leave the graph alone): a call of check_outdated, of a get_*
\* query or of break_down_filters leaves every record as it was, last_check
\* included; so a key that check_outdated reports stays one it reports, at
\* every later time, until update_last_check names it or update is given a
\* list event of it.
C28_ReadsKeepGraph == [][C28_Step]_vars

\* check_outdated reports key A, which has a record with both lists stored,
\* later than one interval after update_last_check named it: the report could
\* have been made a second before as well
C28_StillReported ==
    /\ call.op = "check_outdated"
    /\ "A" \in call.out
    /\ "A" \in DOMAIN public_keys
    /\ DOMAIN public_keys["A"].nip65.collection # {}
    /\ public_keys["A"].nip17.collection # {}
    /\ public_keys["A"].last_check > 0
    /\ OutdatedAt(public_keys, "A", now - 1)

====
